---- MODULE Spec2Model ----
(***************************************************************************)
(* State-machine model of audiotools/cue.py: the tokens() generator, the   *)
(* get_value() helper, parse() and read_cuesheet().                        *)
(*                                                                         *)
(* A text is a sequence of one-character strings (bytes).  A Python value  *)
(* that may be None, a str or an int is a record [t, s, n] tagged by t.    *)
(***************************************************************************)
EXTENDS Integers, Sequences, FiniteSets, TLC

VARIABLES
    text,                     \* the input: the content of the file, or the text to tokenize
    bom,                      \* whether the text handed to tokens() has a BOM put in front
    pc,                       \* position in read_cuesheet / in the consumer of tokens()
    handle,                   \* f in read_cuesheet: "none", "open" or "closed"
    gen,                      \* generator tokens(): "none", "fresh", "running", "finished"
    cuedata,                  \* tokens(): the remaining buffer
    full_length,              \* tokens(): len of the text as passed in
    line_number,              \* tokens(): the line counter
    yielded,                  \* the tuples tokens() has yielded so far, in order
    cuesheet_tracks,          \* parse() locals ...
    cuesheet_catalog_number,
    track_number,
    track_indexes,
    track_audio,
    track_ISRC,
    index_number,
    index_offset,
    token,                    \* parse(): the tuple bound at the top of the loop
    element,
    parse_line_number,        \* parse(): its own local line_number
    numbers_read,             \* track numbers bound by get_value(NUMBER) after TRACK, in order
    stop_in,                  \* the function whose tokens.next() raised StopIteration
    result,                   \* value returned by parse() / read_cuesheet(), or None
    raised                    \* exception propagated to the caller, or NoExc

vars == <<text, bom, pc, handle, gen, cuedata, full_length,
          line_number, yielded, cuesheet_tracks, cuesheet_catalog_number,
          track_number, track_indexes, track_audio, track_ISRC, index_number,
          index_offset, token, element, parse_line_number, numbers_read,
          stop_in, result, raised>>

(***************************************************************************)
(* Bounds of the explored inputs.                                          *)
(***************************************************************************)
MaxLines == 2
MaxPieces == 2
MaxArgs == 3

(***************************************************************************)
(* Token kinds (STRING_ is STRING of the source, a reserved word here).     *)
(***************************************************************************)
SPACE == 0
TAG == 1
NUMBER == 2
EOL == 4
STRING_ == 8
ISRC == 16
TIMESTAMP == 32

(***************************************************************************)
(* Python values.                                                          *)
(***************************************************************************)
None == [t |-> "none", s |-> <<>>, n |-> 0]
PyStr(s) == [t |-> "str", s |-> s, n |-> 0]
PyInt(n) == [t |-> "int", s |-> <<>>, n |-> n]

(***************************************************************************)
(* Characters.                                                             *)
(***************************************************************************)
CR == "\r"
LF == "\n"
TAB == "\t"
QUOTE == "\""
COLON == ":"
BLANK == " "
xEF == "xEF"
xBB == "xBB"
xBF == "xBF"

Upper == {"A", "B", "C", "D", "E", "F", "G", "H", "I", "J", "K", "L", "M",
          "N", "O", "P", "Q", "R", "S", "T", "U", "V", "W", "X", "Y", "Z"}
Lower == {"a", "b", "c", "d", "e", "f", "g", "h", "i", "j", "k", "l", "m",
          "n", "o", "p", "q", "r", "s", "t", "u", "v", "w", "x", "y", "z"}
Digit == {"0", "1", "2", "3", "4", "5", "6", "7", "8", "9"}
Alnum == Upper \cup Lower \cup Digit
Newline == {CR, LF}
Whitespace == {BLANK, TAB, LF, CR, "\f"}

DigitValue(c) ==
    CASE c = "0" -> 0 [] c = "1" -> 1 [] c = "2" -> 2 [] c = "3" -> 3
      [] c = "4" -> 4 [] c = "5" -> 5 [] c = "6" -> 6 [] c = "7" -> 7
      [] c = "8" -> 8 [] c = "9" -> 9

Drop(b, k) == SubSeq(b, k + 1, Len(b))
Take(b, k) == SubSeq(b, 1, k)

\* number of characters from position i of b on that lie in S (within) or
\* outside of S (not within), up to the first one that does not
RECURSIVE RunFrom(_, _, _, _)
RunFrom(b, i, S, within) ==
    IF i <= Len(b) /\ (b[i] \in S) = within
    THEN 1 + RunFrom(b, i + 1, S, within) ELSE 0

\* length of the longest prefix of b whose characters all lie in S
RunLen(b, S) == RunFrom(b, 1, S, TRUE)

\* int() of a run of decimal digits
RECURSIVE ToInt(_)
ToInt(d) ==
    IF d = <<>> THEN 0
    ELSE 10 * ToInt(Take(d, Len(d) - 1)) + DigitValue(d[Len(d)])

\* str.lstrip(chars): drop every leading character that is in chars
RECURSIVE lstrip(_, _)
lstrip(b, chars) ==
    IF b # <<>> /\ Head(b) \in chars THEN lstrip(Tail(b), chars) ELSE b

RECURSIVE rstrip(_, _)
rstrip(b, chars) ==
    IF b # <<>> /\ b[Len(b)] \in chars
    THEN rstrip(Take(b, Len(b) - 1), chars) ELSE b

strip(b, chars) == rstrip(lstrip(b, chars), chars)

BOM == <<xEF, xBB, xBF>>

\* variant: the text is scanned as it was passed in
StripBOM_off(b) == b

\* line 59: the argument of lstrip is the set of the three BOM bytes
StripBOM(b) == lstrip(b, {xEF, xBB, xBF})

(***************************************************************************)
(* The ordered rules of TOKENS: each gives the length of the match at the  *)
(* start of the buffer, 0 when the rule does not match.                    *)
(***************************************************************************)
\* ^([A-Z]{2}[A-Za-z0-9]{3}[0-9]{7})
IsrcLen(b) ==
    IF /\ Len(b) >= 12
       /\ \A i \in 1..2 : b[i] \in Upper
       /\ \A i \in 3..5 : b[i] \in Alnum
       /\ \A i \in 6..12 : b[i] \in Digit
    THEN 12 ELSE 0

\* ^([0-9]{1,3}:[0-9]{1,2}:[0-9]{1,2})
TimestampLen(b) ==
    LET r1 == RunLen(b, Digit)
        b2 == Drop(b, r1 + 1)
        r2 == RunLen(b2, Digit)
        b3 == Drop(b2, r2 + 1)
        r3 == RunLen(b3, Digit)
    IN  IF /\ r1 \in 1..3
           /\ Len(b) > r1 /\ b[r1 + 1] = COLON
           /\ r2 \in 1..2
           /\ Len(b2) > r2 /\ b2[r2 + 1] = COLON
           /\ r3 >= 1
        THEN r1 + 1 + r2 + 1 + (IF r3 >= 2 THEN 2 ELSE 1)
        ELSE 0

\* ^([0-9]+)
NumberLen(b) == RunLen(b, Digit)

\* variant: one EOL token for each carriage return or line feed
EolLen_oneChar(b) == IF b # <<>> /\ Head(b) \in Newline THEN 1 ELSE 0

\* ^([\r\n]+)
EolLen(b) == RunLen(b, Newline)

\* ^(".+?"): the closing quote is the first one after at least one
\* character, "." being any character but a line feed
QuotedLen(b) ==
    IF b # <<>> /\ Head(b) = QUOTE
    THEN LET ends == {j \in 3..Len(b) :
                        /\ b[j] = QUOTE
                        /\ \A k \in 2..(j - 1) : b[k] # LF}
         IN  IF ends = {} THEN 0
             ELSE CHOOSE j \in ends : \A k \in ends : j <= k
    ELSE 0

\* ^(\S+)
BareLen(b) == RunFrom(b, 1, Whitespace, FALSE)

\* ^([ ]+)
SpaceLen(b) == RunLen(b, {BLANK})

\* TAGMATCH = ^[A-Z]+$
TagMatch(g) == g # <<>> /\ \A i \in 1..Len(g) : g[i] \in Upper

\* the split(":") fields of a matched timestamp
TimestampFields(g) ==
    LET r1 == RunLen(g, Digit)
        g2 == Drop(g, r1 + 1)
        r2 == RunLen(g2, Digit)
        g3 == Drop(g2, r2 + 1)
    IN  <<ToInt(Take(g, r1)), ToInt(Take(g2, r2)), ToInt(g3)>>

\* variant: minutes converted to seconds, not to frames
FrameCount_seconds(g) ==
    LET f == TimestampFields(g)
    IN  (f[1] * 60) + (f[2] * 75) + f[3]

\* lines 93-94
FrameCount(g) ==
    LET f == TimestampFields(g)
    IN  (f[1] * 60 * 75) + (f[2] * 75) + f[3]

Tok(value, elem, line, raw) ==
    [value |-> value, element |-> elem, line |-> line, raw |-> raw]

(***************************************************************************)
(* One resumption of the body of the while loop of tokens(), lines 75-105, *)
(* run until it yields, ends or raises.  kind is "yield", "stop" or        *)
(* "raise"; cuedata and line_number are the generator's locals afterwards. *)
(***************************************************************************)
RECURSIVE Scan(_, _)
Scan(b, ln) ==
    LET Yield(k, value, elem, line) ==
            [kind |-> "yield", cuedata |-> Drop(b, k), line_number |-> line,
             tok |-> Tok(value, elem, line, Take(b, k))]
        \* lines 87-91, taken for both STRING_ rules
        StringToken(k) ==
            IF TagMatch(Take(b, k))
            THEN Yield(k, PyStr(Take(b, k)), TAG, ln)
            ELSE Yield(k, PyStr(strip(Take(b, k), {QUOTE})), STRING_, ln)
    IN  IF IsrcLen(b) > 0
        THEN Yield(IsrcLen(b), PyStr(Take(b, IsrcLen(b))), ISRC, ln)
        ELSE IF TimestampLen(b) > 0
        THEN Yield(TimestampLen(b),
                   PyInt(FrameCount(Take(b, TimestampLen(b)))), TIMESTAMP, ln)
        ELSE IF NumberLen(b) > 0
        THEN Yield(NumberLen(b), PyInt(ToInt(Take(b, NumberLen(b)))), NUMBER, ln)
        ELSE IF EolLen(b) > 0
        THEN Yield(EolLen(b), PyStr(Take(b, EolLen(b))), EOL, ln + 1)
        ELSE IF QuotedLen(b) > 0
        THEN StringToken(QuotedLen(b))
        ELSE IF BareLen(b) > 0
        THEN StringToken(BareLen(b))
        ELSE IF SpaceLen(b) > 0
        THEN Scan(Drop(b, SpaceLen(b)), ln)
        ELSE [kind |-> IF Len(b) > 0 THEN "raise" ELSE "stop",
              cuedata |-> b, line_number |-> ln,
              tok |-> Tok(None, SPACE, ln, <<>>)]

(***************************************************************************)
(* Exceptions and the records parse() builds.                              *)
(***************************************************************************)
NoExc == [cls |-> "none", kind |-> "none", line |-> 0, tag |-> <<>>, offset |-> 0]
StopIteration ==
    [cls |-> "StopIteration", kind |-> "none", line |-> 0, tag |-> <<>>, offset |-> 0]
IOError ==
    [cls |-> "IOError", kind |-> "none", line |-> 0, tag |-> <<>>, offset |-> 0]
\* CueException(ERR_CUE_... % payload); kind names the message constant
CueException(kind, line, tag, offset) ==
    [cls |-> "CueException", kind |-> kind, line |-> line, tag |-> tag,
     offset |-> offset]

RECURSIVE Gcd(_, _)
Gcd(a, b) == IF b = 0 THEN a ELSE Gcd(b, a % b)

\* fractions.Fraction(n, d) for n >= 0, d > 0: the reduced fraction
Fraction(n, d) == [num |-> n \div Gcd(n, d), den |-> d \div Gcd(n, d)]

SheetIndex(number, offset) == [number |-> number, offset |-> offset]

SheetTrack(number, indexes, audio, isrc) ==
    [number |-> number, indexes |-> indexes, is_audio |-> audio, ISRC |-> isrc]

NoResult == [t |-> "none", tracks |-> <<>>, catalog |-> None]
Sheet(tracks, catalog) == [t |-> "Sheet", tracks |-> tracks, catalog |-> catalog]

(***************************************************************************)
(* Directive names.                                                        *)
(***************************************************************************)
REM == <<"R", "E", "M">>
TRACK == <<"T", "R", "A", "C", "K">>
CATALOG == <<"C", "A", "T", "A", "L", "O", "G">>
CDTEXTFILE == <<"C", "D", "T", "E", "X", "T", "F", "I", "L", "E">>
PERFORMER == <<"P", "E", "R", "F", "O", "R", "M", "E", "R">>
SONGWRITER == <<"S", "O", "N", "G", "W", "R", "I", "T", "E", "R">>
TITLE == <<"T", "I", "T", "L", "E">>
FILE == <<"F", "I", "L", "E">>
FLAGS == <<"F", "L", "A", "G", "S">>
POSTGAP == <<"P", "O", "S", "T", "G", "A", "P">>
PREGAP == <<"P", "R", "E", "G", "A", "P">>
INDEX == <<"I", "N", "D", "E", "X">>
AUDIO == <<"A", "U", "D", "I", "O">>
ISRC_TAG == <<"I", "S", "R", "C">>

\* variant: ISRC taken as one more attribute of the sheet
PreTrackAttributes_withISRC ==
    {CATALOG, CDTEXTFILE, PERFORMER, SONGWRITER, TITLE, ISRC_TAG}

\* line 200: the attributes accepted before the first track
PreTrackAttributes == {CATALOG, CDTEXTFILE, PERFORMER, SONGWRITER, TITLE}

\* variant: CATALOG is an attribute of a track as well
TrackAttributes_withCatalog == {ISRC_TAG, PERFORMER, SONGWRITER, TITLE, CATALOG}

\* line 229: the attributes accepted inside a track
TrackAttributes == {ISRC_TAG, PERFORMER, SONGWRITER, TITLE}
\* line 254
GapTags == {POSTGAP, PREGAP}

(***************************************************************************)
(* The generator and parse() as operators on a record of their locals.     *)
(* s.raised is the exception in flight (NoExc when there is none), s.cur   *)
(* the tuple the last tokens.next() returned, s.got what get_value         *)
(* returned.                                                               *)
(***************************************************************************)
\* variant: the length is taken after the byte order mark is removed
Prologue_lengthAfterStrip(s) ==
    IF s.gen = "fresh"
    THEN [s EXCEPT !.full_length = Len(StripBOM(s.cuedata)),
                   !.cuedata = StripBOM(s.cuedata),
                   !.line_number = 1,
                   !.gen = "running"]
    ELSE s

\* lines 58-60, run when the generator is resumed for the first time
Prologue(s) ==
    IF s.gen = "fresh"
    THEN [s EXCEPT !.full_length = Len(s.cuedata),
                   !.cuedata = StripBOM(s.cuedata),
                   !.line_number = 1,
                   !.gen = "running"]
    ELSE s

\* the generator's state after the scan r: a yield (lines 83-97), the end
\* of the generator (line 102 false) or the raise of lines 103-105
Emit(s, r, where) ==
    IF r.kind = "yield"
    THEN [s EXCEPT !.cuedata = r.cuedata,
                   !.line_number = r.line_number,
                   !.yielded = Append(@, r.tok),
                   !.cur = r.tok]
    ELSE IF r.kind = "stop"
    THEN [s EXCEPT !.cuedata = r.cuedata,
                   !.gen = "finished",
                   !.raised = StopIteration,
                   !.stop_in = where]
    ELSE [s EXCEPT !.cuedata = r.cuedata,
                   !.gen = "finished",
                   !.raised = CueException("InvalidToken", 0, <<>>,
                                           s.full_length - Len(r.cuedata))]

\* lines 75-105 from the point the generator was suspended at
Resume(s, where) ==
    IF s.gen = "finished"
    THEN [s EXCEPT !.raised = StopIteration, !.stop_in = where]
    ELSE Emit(s, Scan(s.cuedata, s.line_number), where)

\* the remainder no rule matches when b is scanned to its end, <<>> if none
RECURSIVE UnmatchedRest(_)
UnmatchedAfter(r) ==
    IF r.kind = "yield" THEN UnmatchedRest(r.cuedata) ELSE r.cuedata
UnmatchedRest(b) == UnmatchedAfter(Scan(b, 1))

\* variant: the whole text is tokenized on the first resumption (as with
\* list(tokens(...))), so that an unmatched remainder is reported first
next_eager(s, where) ==
    IF s.gen = "fresh" /\ UnmatchedRest(StripBOM(s.cuedata)) # <<>>
    THEN [s EXCEPT !.full_length = Len(s.cuedata),
                   !.cuedata = UnmatchedRest(StripBOM(s.cuedata)),
                   !.line_number = 1,
                   !.gen = "finished",
                   !.raised = CueException("InvalidToken", 0, <<>>,
                       Len(s.cuedata) - Len(UnmatchedRest(StripBOM(s.cuedata))))]
    ELSE Resume(Prologue(s), where)

\* tokens.next(): lines 58-60 on the first resumption, then lines 75-105
next(s, where) == Resume(Prologue(s), where)

Failed(s) == s.raised # NoExc

\* lines 120-126 on the tuple n.cur returned by tokens.next()
Accept(n, accept, error) ==
    IF Failed(n) THEN n
    ELSE IF n.cur.element \in accept
    THEN [n EXCEPT !.got = n.cur.value]
    ELSE [n EXCEPT !.raised = CueException(error, n.cur.line, <<>>, 0)]

\* get_value(tokens, accept, error), lines 119-126; accept is the set of the
\* kinds whose bits are or-ed together
get_value(s, accept, error) == Accept(next(s, "get_value"), accept, error)

\* a get_value that is not reached when an exception is in flight
Expect(s, accept, error) ==
    IF Failed(s) THEN s ELSE get_value(s, accept, error)

\* skip_to_eol(tokens), lines 150-153
RECURSIVE skip_to_eol(_)
SkipOn(n) ==
    IF Failed(n) THEN n
    ELSE IF n.cur.element # EOL THEN skip_to_eol(n)
    ELSE n
skip_to_eol(s) == SkipOn(next(s, "skip_to_eol"))

\* lines 177-182 and 286-290
FlushTrack(s) ==
    IF s.track_number # None
    THEN [s EXCEPT !.cuesheet_tracks =
             Append(@, SheetTrack(s.track_number, s.track_indexes,
                                  s.track_audio, s.track_ISRC))]
    ELSE s

\* lines 184-187: the assignments that follow get_value(NUMBER)
BindTrackNumber(g) ==
    IF Failed(g) THEN g
    ELSE [g EXCEPT !.track_number = g.got,
                   !.numbers_read = Append(@, g.got.n),
                   !.track_indexes = <<>>]

\* lines 188-192: the assignments that follow get_value(TAG | STRING)
BindTrackType(g) ==
    IF Failed(g) THEN g
    ELSE [g EXCEPT !.track_audio = (g.got = PyStr(AUDIO)),
                   !.track_ISRC = None]

\* lines 177-194
DoTrack(s) ==
    Expect(BindTrackType(
               Expect(BindTrackNumber(
                          get_value(FlushTrack(s), {NUMBER}, "InvalidTrackNumber")),
                      {TAG, STRING_}, "InvalidTrackType")),
           {EOL}, "ExcessData")

\* variant: CATALOG takes the kinds of value the other attributes take
PreTrackValueKinds_same(s) == {STRING_, TAG, NUMBER, ISRC}

\* lines 205-211: the kinds accepted as the value of the attribute
PreTrackValueKinds(s) ==
    IF s.token.s = CATALOG THEN {STRING_} ELSE {STRING_, TAG, NUMBER, ISRC}

\* variant: a catalog number, once set, is kept
BindCatalog_keepFirst(g) ==
    IF Failed(g) \/ g.token.s # CATALOG \/ g.cuesheet_catalog_number # None
    THEN g
    ELSE [g EXCEPT !.cuesheet_catalog_number = g.got]

\* lines 205-207: only the value of CATALOG is kept
BindCatalog(g) ==
    IF Failed(g) \/ g.token.s # CATALOG THEN g
    ELSE [g EXCEPT !.cuesheet_catalog_number = g.got]

\* lines 200-213
DoPreTrackAttribute(s) ==
    Expect(BindCatalog(get_value(s, PreTrackValueKinds(s), "MissingValue")),
           {EOL}, "ExcessData")

\* lines 215-221; filename and filetype are bound and never used
DoPreTrackFile(s) ==
    Expect(Expect(get_value(s, {STRING_}, "MissingFilename"),
                  {STRING_, TAG}, "MissingFiletype"),
           {EOL}, "ExcessData")

\* lines 224-226 and 278-280
DoInvalidTag(s) ==
    [s EXCEPT !.raised = CueException("InvalidTag", s.parse_line_number,
                                      s.token.s, 0)]

\* lines 233-240: the kinds accepted as the value of the attribute
TrackValueKinds(s) ==
    IF s.token.s = ISRC_TAG THEN {ISRC} ELSE {STRING_, TAG, NUMBER, ISRC}

\* lines 233-236: only the value of ISRC is kept
BindISRC(g) ==
    IF Failed(g) \/ g.token.s # ISRC_TAG THEN g
    ELSE [g EXCEPT !.track_ISRC = g.got]

\* lines 229-242
DoTrackAttribute(s) ==
    Expect(BindISRC(get_value(s, TrackValueKinds(s), "MissingValue")),
           {EOL}, "InvalidData")

\* line 249: ('\n' not in s) and ('\r' not in s)
NoNewlineIn(v) == \A i \in 1..Len(v.s) : v.s[i] \notin {LF, CR}

\* lines 249-252; flags is filled and never used
RECURSIVE FlagsLoop(_)
FlagsLoop(g) ==
    IF Failed(g) THEN g
    ELSE IF NoNewlineIn(g.got)
    THEN FlagsLoop(get_value(g, {STRING_, TAG, EOL}, "InvalidFlag"))
    ELSE g

\* lines 244-252
DoFlags(s) == FlagsLoop(get_value(s, {STRING_, TAG, EOL}, "InvalidFlag"))

\* lines 254-258
DoGap(s) ==
    Expect(get_value(s, {TIMESTAMP}, "InvalidTimestamp"), {EOL}, "ExcessData")

\* lines 261-263
BindIndexNumber(g) ==
    IF Failed(g) THEN g ELSE [g EXCEPT !.index_number = g.got.n]

\* lines 264-270
BindIndexOffset(g) ==
    IF Failed(g) THEN g
    ELSE [g EXCEPT !.index_offset = g.got.n,
                   !.track_indexes =
                       Append(@, SheetIndex(g.index_number,
                                            Fraction(g.got.n, 75)))]

\* lines 260-272
DoIndex(s) ==
    Expect(BindIndexOffset(
               Expect(BindIndexNumber(
                          get_value(s, {NUMBER}, "InvalidIndexNumber")),
                      {TIMESTAMP}, "InvalidTimestamp")),
           {EOL}, "ExcessData")

\* lines 283-284
DoMissingTag(s) ==
    [s EXCEPT !.raised = CueException("MissingTag", s.parse_line_number,
                                      <<>>, 0)]

\* line 168: the tuple assignment
BindToken(n) ==
    IF Failed(n) THEN n
    ELSE [n EXCEPT !.token = n.cur.value,
                   !.element = n.cur.element,
                   !.parse_line_number = n.cur.line]

\* line 168
Pull(s) == BindToken(next(s, "parse"))

\* the branch of lines 169-284 that the pulled token selects
Branch(n) ==
    IF n.raised = StopIteration THEN "exhausted"
    ELSE IF n.raised # NoExc THEN "invalid token"
    ELSE IF n.element # TAG THEN "missing tag"
    ELSE IF n.token.s = REM THEN "REM"
    ELSE IF n.token.s = TRACK THEN "TRACK"
    ELSE IF n.track_number = None
    THEN IF n.token.s \in PreTrackAttributes THEN "attribute"
         ELSE IF n.token.s = FILE THEN "FILE"
         ELSE "invalid tag"
    ELSE IF n.token.s \in TrackAttributes THEN "track attribute"
         ELSE IF n.token.s = FLAGS THEN "FLAGS"
         ELSE IF n.token.s \in GapTags THEN "gap"
         ELSE IF n.token.s = INDEX THEN "INDEX"
         ELSE IF n.token.s \in {FILE} THEN "track FILE"
         ELSE "track invalid tag"

\* line 292
ReturnSheet(s) ==
    [s EXCEPT !.raised = NoExc,
              !.result = Sheet(s.cuesheet_tracks, s.cuesheet_catalog_number)]

\* lines 285-292: StopIteration raised anywhere inside the try block ends
\* the parse with a Sheet; any other exception leaves parse()
Leave(s) ==
    IF s.raised = StopIteration THEN ReturnSheet(FlushTrack(s)) ELSE s

\* lines 169-284 on the branch b
Dispatch(n, b) ==
    CASE b = "exhausted" -> n
      [] b = "invalid token" -> n
      [] b = "missing tag" -> DoMissingTag(n)
      [] b = "REM" -> skip_to_eol(n)
      [] b = "TRACK" -> DoTrack(n)
      [] b = "attribute" -> DoPreTrackAttribute(n)
      [] b = "FILE" -> DoPreTrackFile(n)
      [] b = "invalid tag" -> DoInvalidTag(n)
      [] b = "track attribute" -> DoTrackAttribute(n)
      [] b = "FLAGS" -> DoFlags(n)
      [] b = "gap" -> DoGap(n)
      [] b = "INDEX" -> DoIndex(n)
      [] b = "track FILE" -> skip_to_eol(n)
      [] b = "track invalid tag" -> DoInvalidTag(n)

Branches(n) == Dispatch(n, Branch(n))

\* one iteration of the loop of lines 167-284, with the handler of 285-292
Iteration(s) == Leave(Branches(Pull(s)))

\* lines 155-164 on the generator tokens(data)
ParseStart(data) ==
    [gen |-> "fresh", cuedata |-> data, full_length |-> 0, line_number |-> 0,
     yielded |-> <<>>,
     cuesheet_tracks |-> <<>>, cuesheet_catalog_number |-> None,
     track_number |-> None, track_indexes |-> <<>>, track_audio |-> FALSE,
     track_ISRC |-> None, index_number |-> 0, index_offset |-> 0,
     token |-> None, element |-> SPACE, parse_line_number |-> 0,
     numbers_read |-> <<>>, stop_in |-> "none",
     result |-> NoResult, raised |-> NoExc,
     cur |-> Tok(None, SPACE, 0, <<>>), got |-> None]

Left(s) == s.result # NoResult \/ s.raised # NoExc

\* parse(tokens(data)) run to its end
RECURSIVE ParseLoop(_)
ParseLoop(s) == IF Left(s) THEN s ELSE ParseLoop(Iteration(s))

parse(data) == ParseLoop(ParseStart(data))

\* tokens(data) drained by a for loop: the tuples yielded, and how it ended
RECURSIVE Drain(_)
DrainOn(n) == IF Failed(n) THEN n ELSE Drain(n)
Drain(s) == DrainOn(next(s, "for"))

tokens(data) == Drain(ParseStart(data))

(***************************************************************************)
(* Inputs: cue sheets of a preamble and at most MaxLines further lines,    *)
(* and texts of at most MaxPieces pieces for the tokenizer alone.          *)
(***************************************************************************)
SP == <<BLANK>>
CRLF == <<CR, LF>>
IsrcWord == <<"U", "S", "A", "B", "C", "1", "2", "3", "4", "5", "6", "7">>
Quoted(w) == <<QUOTE>> \o w \o <<QUOTE>>
Ts(a, b, c) == a \o <<COLON>> \o b \o <<COLON>> \o c

Lines ==
    { REM \o SP \o <<"x">>,
      TRACK \o SP \o <<"0", "1">> \o SP \o AUDIO,
      TRACK,
      TRACK \o SP \o <<"3">>,
      CATALOG \o SP \o Quoted(<<"0", "1">>),
      CATALOG \o SP \o <<"c", "d">>,
      TITLE \o SP \o Quoted(<<"T">>),
      FILE \o SP \o Quoted(<<"f">>) \o SP \o <<"W", "A", "V", "E">>,
      ISRC_TAG \o SP \o IsrcWord,
      FLAGS \o SP \o <<"D", "C", "P">>,
      FLAGS \o SP \o Quoted(<<"a", CR, "b">>) \o SP \o <<"D", "C", "P">>,
      PREGAP \o SP \o Ts(<<"0", "0">>, <<"0", "2">>, <<"0", "0">>),
      INDEX \o SP \o <<"0">> \o SP \o Ts(<<"0", "1">>, <<"0", "2">>, <<"0", "3">>),
      INDEX \o SP \o <<"1">> \o SP \o Ts(<<"0", "0">>, <<"0", "0">>, <<"0", "1">>),
      INDEX \o SP \o <<"1">>,
      <<"F", "O", "O">>,
      Quoted(<<"x">>),
      TITLE \o <<TAB>> \o <<"x">>,
      <<TAB>> \o TITLE }

Pieces ==
    { IsrcWord,
      IsrcWord \o <<"8">>,
      <<"u", "S", "A", "B", "C", "1", "2", "3", "4", "5", "6", "7">>,
      <<"U", "S", "A", "B", "C", "1", "2", "3", "4", "5", "6">>,
      TRACK,
      <<"1", "2">>,
      Ts(<<"0", "1">>, <<"0", "2">>, <<"0", "3">>),
      Ts(<<"1">>, <<"2">>, <<"3", "4", "5">>),
      Quoted(<<"a", BLANK, "b">>),
      <<"x", QUOTE>>,
      SP,
      CRLF,
      <<LF, LF>>,
      <<TAB>>,
      BOM,
      <<xBF, xEF>> }

SeqsUpTo(S, n) == UNION {[1..k -> S] : k \in 0..n}

RECURSIVE Concat(_)
Concat(ps) == IF ps = <<>> THEN <<>> ELSE Head(ps) \o Concat(Tail(ps))

\* every line but the last ends in CR LF; the last one does when fin
RECURSIVE FileText(_, _)
FileText(ls, fin) ==
    IF ls = <<>> THEN <<>>
    ELSE IF Len(ls) = 1 THEN Head(ls) \o (IF fin THEN CRLF ELSE <<>>)
    ELSE Head(ls) \o CRLF \o FileText(Tail(ls), fin)

\* beginnings of well-formed sheets that the explored lines are appended to
Preambles ==
    { <<>>,
      <<TRACK \o SP \o <<"0", "1">> \o SP \o AUDIO,
        INDEX \o SP \o <<"0", "1">> \o SP \o Ts(<<"0", "0">>, <<"0", "2">>, <<"0", "0">>)>>,
      <<CATALOG \o SP \o Quoted(<<"0", "1">>),
        TRACK \o SP \o <<"2">> \o SP \o <<"M", "O", "D", "E">>,
        ISRC_TAG \o SP \o IsrcWord>> }

FileTexts ==
    {FileText(pre \o ls, fin) :
        pre \in Preambles, ls \in SeqsUpTo(Lines, MaxLines), fin \in BOOLEAN}
LexTexts == {Concat(ps) : ps \in SeqsUpTo(Pieces, MaxPieces)}

\* one line: a first word and at most MaxArgs further tokens, each after a
\* blank; the words are every directive, an unknown tag, a line that starts
\* with a string and one that starts with an unmatched character
DirectiveHeads ==
    { TRACK, CATALOG, CDTEXTFILE, PERFORMER, SONGWRITER, TITLE, FILE, ISRC_TAG,
      FLAGS, PREGAP, POSTGAP, INDEX, REM, <<"F", "O", "O">>,
      Quoted(<<"x">>), <<TAB>> \o TITLE }

\* one token of each kind a value can have: STRING, TAG, NUMBER, ISRC, TIMESTAMP
ArgTokens ==
    { Quoted(<<"0", "1">>), AUDIO, <<"7">>, IsrcWord,
      Ts(<<"0", "0">>, <<"0", "2">>, <<"0", "0">>) }

RECURSIVE Spaced(_)
Spaced(as) == IF as = <<>> THEN <<>> ELSE SP \o Head(as) \o Spaced(Tail(as))

\* the line alone or as the first line of track 1
DirectiveTexts ==
    {FileText(pre \o <<h \o Spaced(as)>>, fin) :
        pre \in {<<>>, <<TRACK \o SP \o <<"0", "1">> \o SP \o AUDIO>>},
        h \in DirectiveHeads, as \in SeqsUpTo(ArgTokens, MaxArgs),
        fin \in BOOLEAN}

(***************************************************************************)
(* The state machine.                                                      *)
(***************************************************************************)
PState ==
    [gen |-> gen, cuedata |-> cuedata, full_length |-> full_length,
     line_number |-> line_number, yielded |-> yielded,
     cuesheet_tracks |-> cuesheet_tracks,
     cuesheet_catalog_number |-> cuesheet_catalog_number,
     track_number |-> track_number, track_indexes |-> track_indexes,
     track_audio |-> track_audio, track_ISRC |-> track_ISRC,
     index_number |-> index_number, index_offset |-> index_offset,
     token |-> token, element |-> element,
     parse_line_number |-> parse_line_number,
     numbers_read |-> numbers_read, stop_in |-> stop_in,
     result |-> result, raised |-> raised,
     cur |-> Tok(None, SPACE, 0, <<>>), got |-> None]

SetP(n) ==
    /\ gen' = n.gen
    /\ cuedata' = n.cuedata
    /\ full_length' = n.full_length
    /\ line_number' = n.line_number
    /\ yielded' = n.yielded
    /\ cuesheet_tracks' = n.cuesheet_tracks
    /\ cuesheet_catalog_number' = n.cuesheet_catalog_number
    /\ track_number' = n.track_number
    /\ track_indexes' = n.track_indexes
    /\ track_audio' = n.track_audio
    /\ track_ISRC' = n.track_ISRC
    /\ index_number' = n.index_number
    /\ index_offset' = n.index_offset
    /\ token' = n.token
    /\ element' = n.element
    /\ parse_line_number' = n.parse_line_number
    /\ numbers_read' = n.numbers_read
    /\ stop_in' = n.stop_in
    /\ result' = n.result
    /\ raised' = n.raised

\* the same locals in the initial state
StartP(n) ==
    /\ gen = n.gen
    /\ cuedata = n.cuedata
    /\ full_length = n.full_length
    /\ line_number = n.line_number
    /\ yielded = n.yielded
    /\ cuesheet_tracks = n.cuesheet_tracks
    /\ cuesheet_catalog_number = n.cuesheet_catalog_number
    /\ track_number = n.track_number
    /\ track_indexes = n.track_indexes
    /\ track_audio = n.track_audio
    /\ track_ISRC = n.track_ISRC
    /\ index_number = n.index_number
    /\ index_offset = n.index_offset
    /\ token = n.token
    /\ element = n.element
    /\ parse_line_number = n.parse_line_number
    /\ numbers_read = n.numbers_read
    /\ stop_in = n.stop_in
    /\ result = n.result
    /\ raised = n.raised

pvars == <<gen, cuedata, full_length, line_number, yielded, cuesheet_tracks,
           cuesheet_catalog_number, track_number, track_indexes, track_audio,
           track_ISRC, index_number, index_offset, token, element,
           parse_line_number, numbers_read, stop_in, result, raised>>

Init ==
    /\ text \in FileTexts
    /\ bom = FALSE
    /\ pc = "start"
    /\ handle = "none"
    /\ StartP([ParseStart(<<>>) EXCEPT !.gen = "none"])

\* line 462 raising IOError, lines 463-465
OpenFails ==
    /\ pc = "start"
    /\ raised' = CueException("IOError", 0, <<>>, 0)
    /\ pc' = "done"
    /\ UNCHANGED <<text, bom, handle, gen, cuedata, full_length, line_number,
                   yielded, cuesheet_tracks, cuesheet_catalog_number,
                   track_number, track_indexes, track_audio, track_ISRC,
                   index_number, index_offset, token, element,
                   parse_line_number, numbers_read, stop_in, result>>

\* line 462
Open ==
    /\ pc = "start"
    /\ handle' = "open"
    /\ pc' = "opened"
    /\ UNCHANGED <<text, bom, pvars>>

\* line 467, f.read() raising IOError: no handler but the finally clause
ReadFails ==
    /\ pc = "opened"
    /\ raised' = IOError
    /\ pc' = "finally"
    /\ UNCHANGED <<text, bom, handle, gen, cuedata, full_length, line_number,
                   yielded, cuesheet_tracks, cuesheet_catalog_number,
                   track_number, track_indexes, track_audio, track_ISRC,
                   index_number, index_offset, token, element,
                   parse_line_number, numbers_read, stop_in, result>>

\* line 467: f.read(), tokens() called on it, parse() entered (lines 155-164)
Read ==
    /\ pc = "opened"
    /\ SetP(ParseStart(text))
    /\ pc' = "parse"
    /\ UNCHANGED <<text, bom, handle>>

\* the state after one iteration of the loop of parse()
Continue(n) ==
    \E after \in {n} :
        /\ SetP(after)
        /\ pc' = IF Left(after) THEN "finally" ELSE "parse"
        /\ UNCHANGED <<text, bom, handle>>

At(b) == pc = "parse" /\ Branch(Pull(PState)) = b

\* line 168 raising StopIteration, lines 285-292
ParseExhausted == At("exhausted") /\ Continue(Leave(Pull(PState)))

\* line 168 raising the CueException of lines 102-105
ParseInvalidToken == At("invalid token") /\ Continue(Leave(Pull(PState)))

\* lines 282-284
ParseMissingTag == At("missing tag") /\ Continue(Leave(DoMissingTag(Pull(PState))))

\* lines 172-173
ParseRem == At("REM") /\ Continue(Leave(skip_to_eol(Pull(PState))))

\* lines 176-194
ParseTrack == At("TRACK") /\ Continue(Leave(DoTrack(Pull(PState))))

\* lines 200-213
ParsePreTrackAttribute ==
    At("attribute") /\ Continue(Leave(DoPreTrackAttribute(Pull(PState))))

\* lines 215-221
ParsePreTrackFile == At("FILE") /\ Continue(Leave(DoPreTrackFile(Pull(PState))))

\* lines 223-226
ParsePreTrackInvalidTag ==
    At("invalid tag") /\ Continue(Leave(DoInvalidTag(Pull(PState))))

\* lines 229-242
ParseTrackAttribute ==
    At("track attribute") /\ Continue(Leave(DoTrackAttribute(Pull(PState))))

\* lines 244-252
ParseFlags == At("FLAGS") /\ Continue(Leave(DoFlags(Pull(PState))))

\* lines 254-258
ParseGap == At("gap") /\ Continue(Leave(DoGap(Pull(PState))))

\* lines 260-272
ParseIndex == At("INDEX") /\ Continue(Leave(DoIndex(Pull(PState))))

\* lines 274-275
ParseTrackFile == At("track FILE") /\ Continue(Leave(skip_to_eol(Pull(PState))))

\* lines 277-280
ParseTrackInvalidTag ==
    At("track invalid tag") /\ Continue(Leave(DoInvalidTag(Pull(PState))))

\* variant: the handle is closed only when parse() returned
Close_onReturn ==
    /\ pc = "finally"
    /\ handle' = IF raised = NoExc THEN "closed" ELSE handle
    /\ pc' = "done"
    /\ UNCHANGED <<text, bom, pvars>>

\* lines 468-469
Close ==
    /\ pc = "finally"
    /\ handle' = "closed"
    /\ pc' = "done"
    /\ UNCHANGED <<text, bom, pvars>>

Next ==
    \/ OpenFails
    \/ Open
    \/ ReadFails
    \/ Read
    \/ ParseExhausted
    \/ ParseInvalidToken
    \/ ParseMissingTag
    \/ ParseRem
    \/ ParseTrack
    \/ ParsePreTrackAttribute
    \/ ParsePreTrackFile
    \/ ParsePreTrackInvalidTag
    \/ ParseTrackAttribute
    \/ ParseFlags
    \/ ParseGap
    \/ ParseIndex
    \/ ParseTrackFile
    \/ ParseTrackInvalidTag
    \/ Close

Spec == Init /\ [][Next]_vars

(***************************************************************************)
(* read_cuesheet on one directive line with every combination of tokens.   *)
(***************************************************************************)
DirectiveInit ==
    /\ text \in DirectiveTexts
    /\ bom = FALSE
    /\ pc = "start"
    /\ handle = "none"
    /\ StartP([ParseStart(<<>>) EXCEPT !.gen = "none"])

DirectiveSpec == DirectiveInit /\ [][Next]_vars

(***************************************************************************)
(* The tokenizer alone, drained by a for loop.                             *)
(***************************************************************************)
LexInit ==
    /\ text \in LexTexts
    /\ bom \in BOOLEAN
    /\ pc = "lex"
    /\ handle = "none"
    /\ StartP(ParseStart(IF bom THEN BOM \o text ELSE text))

Drained(n) ==
    /\ SetP([n EXCEPT !.raised = IF @ = StopIteration THEN NoExc ELSE @])
    /\ pc' = IF n.raised = NoExc THEN "lex" ELSE "lexdone"
    /\ UNCHANGED <<text, bom, handle>>

\* a resumption that reaches one of the yield statements of lines 83-97
LexYield ==
    /\ pc = "lex"
    /\ next(PState, "for").raised = NoExc
    /\ Drained(next(PState, "for"))

\* a resumption that falls off the end of the generator (line 102 false)
LexStop ==
    /\ pc = "lex"
    /\ next(PState, "for").raised = StopIteration
    /\ Drained(next(PState, "for"))

\* a resumption that reaches the raise of lines 102-105
LexRaise ==
    /\ pc = "lex"
    /\ next(PState, "for").raised.cls = "CueException"
    /\ Drained(next(PState, "for"))

LexNext == LexYield \/ LexStop \/ LexRaise

LexSpec == LexInit /\ [][LexNext]_vars

(***************************************************************************)
(* Properties.                                                             *)
(***************************************************************************)
Returned == result # NoResult

\* C1: parse returns a Sheet only when the token stream is exhausted at the
\* top-level loop boundary (line 168); exhaustion inside get_value or
\* skip_to_eol makes parse fail and no Sheet is returned.
C1_SheetOnlyAtLoopBoundary == Returned => stop_in = "parse"

\* C2: whenever parse returns a Sheet, its track list holds exactly one
\* Track per TRACK directive whose NUMBER was read, in directive order; a
\* stream without a TRACK directive gives an empty track list, and the
\* empty stream gives no catalog either.
C2_OneTrackPerDirective ==
    Returned =>
        /\ [i \in 1..Len(result.tracks) |-> result.tracks[i].number.n]
               = numbers_read
        /\ (numbers_read = <<>> => result.tracks = <<>>)
        /\ (text = <<>> => result.catalog = None)

C3_PreTrackTags ==
    {REM, TRACK, CATALOG, CDTEXTFILE, PERFORMER, SONGWRITER, TITLE, FILE}
C3_InTrackTags ==
    {REM, TRACK, ISRC_TAG, PERFORMER, SONGWRITER, TITLE, FLAGS, PREGAP,
     POSTGAP, INDEX, FILE}
C3_EolsBeforeLast ==
    Cardinality({i \in 1..(Len(yielded) - 1) : yielded[i].element = EOL})

\* C3: the tag bound at the top of the loop is accepted exactly when it is
\* in the list of its context (before any TRACK / while a track is open);
\* any other TAG raises InvalidTag with the tag text and the line of the
\* tag token (1 + the EOL tokens before it, so 1 on the first line), and a
\* token that is not a TAG raises MissingTag.
C3_TagAcceptance ==
    LET accepted == IF track_number = None THEN C3_PreTrackTags
                    ELSE C3_InTrackTags
        bound == element # SPACE
    IN  /\ raised.kind = "InvalidTag"
              <=> (bound /\ element = TAG /\ token.s \notin accepted)
        /\ raised.kind = "InvalidTag" =>
              /\ raised.cls = "CueException"
              /\ raised.tag = token.s
              /\ raised.line = 1 + C3_EolsBeforeLast
              /\ (Len(yielded) = 1 => raised.line = 1)
              /\ ~Returned
        /\ raised.kind = "MissingTag" <=> (bound /\ element # TAG)
        /\ raised.kind = "MissingTag" =>
              raised.cls = "CueException" /\ ~Returned

\* a tag that is valid before the first TRACK is refused inside a track
C3_Witness ==
    /\ raised.kind = "InvalidTag"
    /\ raised.tag = CATALOG
    /\ track_number # None
    /\ raised.line > 1

\* the value of the last CATALOG directive in the tokens pulled, up to the
\* first TRACK directive; atStart tells that toks[i] begins a line
RECURSIVE C4_LastCatalog(_, _, _, _)
C4_LastCatalog(toks, i, atStart, cat) ==
    IF i > Len(toks) THEN cat
    ELSE IF atStart /\ toks[i].element = TAG /\ toks[i].value.s = TRACK
    THEN cat
    ELSE IF /\ atStart /\ toks[i].element = TAG /\ toks[i].value.s = CATALOG
            /\ i < Len(toks) /\ toks[i + 1].element = STRING_
    THEN C4_LastCatalog(toks, i + 2, FALSE, toks[i + 1].value)
    ELSE C4_LastCatalog(toks, i + 1, toks[i].element = EOL, cat)

C4_CatalogOfSheet ==
    Returned => result.catalog = C4_LastCatalog(yielded, 1, TRUE, None)

C4_OnlyCatalogWrites ==
    cuesheet_catalog_number' # cuesheet_catalog_number =>
        /\ track_number = None
        /\ element' = TAG /\ token'.s = CATALOG
        /\ cuesheet_catalog_number' = yielded'[Len(yielded) + 2].value

\* C4: on success the catalog of the Sheet is the value of the last CATALOG
\* directive parsed before the first TRACK directive, None when there was
\* none, and no other directive changes the catalog.
C4_LastCatalogWins == [](C4_CatalogOfSheet) /\ [][C4_OnlyCatalogWrites]_vars

\* an earlier CATALOG value was overwritten
C4_Witness ==
    /\ Returned
    /\ result.catalog = PyStr(<<"c", "d">>)
    /\ Cardinality({i \in 1..Len(yielded) :
           yielded[i].element = TAG /\ yielded[i].value.s = CATALOG}) >= 2

C5_Shape(w) ==
    /\ Len(w) = 12
    /\ \A i \in 1..2 : w[i] \in Upper
    /\ \A i \in 3..5 : w[i] \in Alnum
    /\ \A i \in 6..12 : w[i] \in Digit

\* the whitespace-delimited words of t, in order
RECURSIVE C5_Words(_)
C5_Words(t) ==
    LET u == lstrip(t, Whitespace)
        k == BareLen(u)
    IN  IF u = <<>> THEN <<>> ELSE <<Take(u, k)>> \o C5_Words(Drop(u, k))

C5_IsIsrc(tk) == tk.element = ISRC

\* C5: the lexer emits an ISRC token exactly for the whitespace-delimited
\* words of the 12-character shape; a word that deviates from the shape
\* (a longer word that only begins with it included) gives no ISRC token.
C5_IsrcExactlyForShape ==
    (/\ pc = "lexdone" /\ raised = NoExc /\ ~bom
     /\ \A i \in 1..Len(text) : text[i] \notin {xEF, xBB, xBF})
    => LET got == SelectSeq(yielded, C5_IsIsrc)
       IN  [i \in 1..Len(got) |-> got[i].raw] = SelectSeq(C5_Words(text), C5_Shape)

\* lines FLAGS ... CR LF made of STRING and TAG tokens
C6_FlagsLines ==
    {l \o CRLF :
        l \in {m \in Lines : Len(m) > Len(FLAGS) /\ Take(m, Len(FLAGS)) = FLAGS}}

\* C6: for a cue sheet that parses successfully, a well-formed FLAGS line
\* put in (or taken out) inside a track gives an identical Sheet.
C6_FlagsLineChangesNothing ==
    (pc = "done" /\ gen # "none") =>
        \A fl \in C6_FlagsLines :
            \A i \in 1..Len(text) :
                (/\ text[i] = "F"
                 /\ (i = 1 \/ text[i - 1] \in Newline)
                 /\ i + Len(fl) - 1 <= Len(text)
                 /\ SubSeq(text, i, i + Len(fl) - 1) = fl)
                => LET before == Take(text, i - 1)
                       without == before \o Drop(text, i + Len(fl) - 1)
                       base == parse(without)
                   IN  (/\ base.result # NoResult
                        /\ parse(before).track_number # None)
                       => result = base.result

C7_Triples(toks) ==
    [i \in 1..Len(toks) |-> <<toks[i].value, toks[i].element, toks[i].line>>]

\* C7: tokens(BOM + text) yields the same (value, kind, line) tuples as
\* tokens(text): no token comes from the bytes EF BB BF put in front.
C7_BomChangesNoToken ==
    (pc = "lexdone" /\ bom) =>
        C7_Triples(yielded) = C7_Triples(tokens(text).yielded)

C7_Witness ==
    /\ pc = "lexdone" /\ bom
    /\ full_length = Len(text) + 3
    /\ Len(yielded) >= 2
    /\ yielded[1].element = ISRC

C8_Digit(c) == CHOOSE v \in 0..9 : <<"0", "1", "2", "3", "4", "5", "6", "7", "8", "9">>[v + 1] = c

RECURSIVE C8_Decimal(_, _)
C8_Decimal(d, acc) ==
    IF d = <<>> THEN acc ELSE C8_Decimal(Tail(d), 10 * acc + C8_Digit(Head(d)))

\* m*60*75 + s*75 + f of the text mm:ss:ff
C8_Frames(raw) ==
    LET colons == {i \in 1..Len(raw) : raw[i] = COLON}
        p1 == CHOOSE i \in colons : \A j \in colons : i <= j
        p2 == CHOOSE i \in colons : \A j \in colons : j <= i
    IN  C8_Decimal(SubSeq(raw, 1, p1 - 1), 0) * 60 * 75
          + C8_Decimal(SubSeq(raw, p1 + 1, p2 - 1), 0) * 75
          + C8_Decimal(SubSeq(raw, p2 + 1, Len(raw)), 0)

C8_TimestampValue ==
    \A i \in 1..Len(yielded) :
        yielded[i].element = TIMESTAMP =>
            /\ yielded[i].value = PyInt(C8_Frames(yielded[i].raw))
            /\ (yielded[i].raw = Ts(<<"0", "1">>, <<"0", "2">>, <<"0", "3">>)
                   => yielded[i].value.n = 4653)

C8_IndexAppended ==
    (track_indexes' # track_indexes /\ track_indexes' # <<>>) =>
        LET k == Len(yielded)
            n == yielded'[k + 2]
            ts == yielded'[k + 3]
            idx == track_indexes'[Len(track_indexes')]
        IN  /\ yielded'[k + 1].value.s = INDEX
            /\ n.element = NUMBER /\ ts.element = TIMESTAMP
            /\ track_indexes' = Append(track_indexes, idx)
            /\ idx.number = C8_Decimal(n.raw, 0)
            /\ idx.offset.den > 0
            /\ idx.offset.num * 75 = C8_Frames(ts.raw) * idx.offset.den
            /\ (ts.raw = Ts(<<"0", "0">>, <<"0", "2">>, <<"0", "0">>)
                   => idx.offset = [num |-> 2, den |-> 1])
            /\ (ts.raw = Ts(<<"0", "0">>, <<"0", "0">>, <<"0", "1">>)
                   => idx.offset = [num |-> 1, den |-> 75])

\* C8: a TIMESTAMP mm:ss:ff lexes to m*60*75 + s*75 + f (01:02:03 gives
\* 4653), and INDEX n mm:ss:ff appends, after the indexes already there,
\* Index{n, offset} with offset * 75 equal to that frame count exactly
\* (00:02:00 gives 2, 00:00:01 gives 1/75).
C8_FramesAndOffsets == [](C8_TimestampValue) /\ [][C8_IndexAppended]_vars

\* two indexes of one track, in encounter order and not in number order
C8_Witness ==
    /\ Len(track_indexes) = 2
    /\ track_indexes[1] = [number |-> 1, offset |-> [num |-> 2, den |-> 1]]
    /\ track_indexes[2].number = 0
    /\ track_indexes[2].offset.num * 75 = 4653 * track_indexes[2].offset.den

\* C9: every failure of read_cuesheet is raised as CueException (open,
\* read, tokenize, parse), and the I/O failures carry the IoError kind.
C9_EveryFailureIsCueException ==
    (pc = "done" /\ raised # NoExc) =>
        /\ raised.cls = "CueException"
        /\ (gen = "none" => raised.kind = "IOError")
        /\ (gen # "none" => raised.kind # "IOError")

\* the text tokenized to its end without a consumer: the tokens before the
\* first unmatched remainder, and that remainder
RECURSIVE C10_Lex(_, _, _)
C10_Lex(b, ln, acc) ==
    LET r == Scan(b, ln)
    IN  IF r.kind = "yield"
        THEN C10_Lex(r.cuedata, r.line_number, Append(acc, r.tok))
        ELSE [toks |-> acc, rest |-> r.cuedata]

C10_Grammar ==
    raised.cls = "CueException" /\ raised.kind \notin {"InvalidToken", "IOError"}

\* judged when parse() is left: the tokens pulled only grow until then
C10_FirstFailure ==
    /\ raised.cls = "CueException" => ~Returned
    /\ (pc = "finally" /\ gen # "none") =>
        LET all == C10_Lex(lstrip(text, {xEF, xBB, xBF}), 1, <<>>)
        IN  /\ Len(yielded) <= Len(all.toks)
            /\ yielded = Take(all.toks, Len(yielded))
            /\ raised.kind = "InvalidToken" =>
                  /\ yielded = all.toks
                  /\ cuedata = all.rest
                  /\ raised.offset = Len(text) - Len(all.rest)
            /\ C10_Grammar =>
                  /\ yielded # <<>>
                  /\ raised.line = yielded[Len(yielded)].line

C10_NothingAfterFailure ==
    /\ Len(yielded) <= Len(yielded')
    /\ yielded = Take(yielded', Len(yielded))
    /\ (raised # NoExc \/ Returned) =>
        /\ yielded' = yielded
        /\ cuedata' = cuedata
        /\ raised' = raised
        /\ result' = result

\* C10: parse stops at the first failure in input order: the tokens pulled
\* are a prefix of the text's tokens, an InvalidToken is raised only once
\* every token before the unmatched remainder was pulled and accepted, a
\* grammar error is raised for the token pulled last, nothing is pulled and
\* no Sheet is returned afterwards.
C10_FailFast == [](C10_FirstFailure) /\ [][C10_NothingAfterFailure]_vars

\* a grammar error raised although the text further on cannot be tokenized
C10_Witness ==
    /\ C10_Grammar
    /\ pc = "done"
    /\ C10_Lex(text, 1, <<>>).rest # <<>>
    /\ Len(yielded) < Len(C10_Lex(text, 1, <<>>).toks)

\* C11: once the file is opened its handle is open until read_cuesheet is
\* left and closed when it is left, whether parse returned, failed or the
\* read failed; when open() fails there is no handle and nothing was
\* tokenized or parsed.
C11_HandleClosedOnEveryExit ==
    /\ pc = "start" => handle = "none"
    /\ pc \in {"opened", "parse", "finally"} => handle = "open"
    /\ handle = "none" => (gen = "none" /\ yielded = <<>> /\ ~Returned)
    /\ pc = "done" =>
          \/ handle = "closed"
          \/ /\ handle = "none"
             /\ raised = CueException("IOError", 0, <<>>, 0)

\* read_cuesheet left by a grammar error with the handle closed
C11_Witness ==
    /\ pc = "done"
    /\ handle = "closed"
    /\ raised.kind = "MissingTag"

\* the tokens pulled on the line of the directive being parsed, its tag first
C12_Directive ==
    LET OnLine(t) == t.element # EOL /\ t.line = parse_line_number
    IN  SelectSeq(yielded, OnLine)

\* the kinds of the value tokens the directive requires before its EOL,
\* <<>> for what is not a directive that requires a terminating EOL
C12_Required ==
    LET any == {STRING_, TAG, NUMBER, ISRC}
    IN  IF element # TAG THEN <<>>
        ELSE IF token.s = TRACK THEN <<{NUMBER}, {TAG, STRING_}>>
        ELSE IF track_number = None
        THEN IF token.s = CATALOG THEN <<{STRING_}>>
             ELSE IF token.s \in {CDTEXTFILE, PERFORMER, SONGWRITER, TITLE}
             THEN <<any>>
             ELSE IF token.s = FILE THEN <<{STRING_}, {STRING_, TAG}>>
             ELSE <<>>
        ELSE IF token.s = ISRC_TAG THEN <<{ISRC}>>
             ELSE IF token.s \in {PERFORMER, SONGWRITER, TITLE} THEN <<any>>
             ELSE IF token.s \in {PREGAP, POSTGAP} THEN <<{TIMESTAMP}>>
             ELSE IF token.s = INDEX THEN <<{NUMBER}, {TIMESTAMP}>>
             ELSE <<>>

\* the token pulled last is a non-EOL token right after the required values
C12_ExcessToken ==
    /\ gen # "none"
    /\ C12_Required # <<>>
    /\ Len(C12_Directive) = Len(C12_Required) + 2
    /\ C12_Directive[1].value = token
    /\ \A i \in 1..Len(C12_Required) :
          C12_Directive[i + 1].element \in C12_Required[i]
    /\ yielded[Len(yielded)] = C12_Directive[Len(C12_Directive)]

\* C12: for every directive that requires a terminating EOL, a non-EOL token
\* after the directive's required value tokens makes parse fail with
\* ExcessData and the line of the directive.
C12_ExcessDataAfterValues ==
    C12_ExcessToken =>
        raised = CueException("ExcessData", parse_line_number, <<>>, 0)

\* the positions in the tokens pulled at which a TRACK directive starts
C13_Starts ==
    LET IsStart(i) ==
            /\ yielded[i].element = TAG
            /\ yielded[i].value = PyStr(TRACK)
            /\ (i = 1 \/ yielded[i - 1].element = EOL)
        idx == [i \in 1..Len(yielded) |-> i]
    IN  SelectSeq(idx, IsStart)

\* the positions of the tokens of the k-th track: from its TRACK tag up to
\* the next TRACK directive or the end of the stream
C13_Segment(k) ==
    LET from == C13_Starts[k]
        to == IF k < Len(C13_Starts) THEN C13_Starts[k + 1] - 1 ELSE Len(yielded)
    IN  from..to

\* the positions in the k-th segment where a directive named tag starts
C13_Directives(k, tag) ==
    {i \in C13_Segment(k) :
        /\ yielded[i].element = TAG
        /\ yielded[i].value = PyStr(tag)
        /\ yielded[i - 1].element = EOL
        /\ i + 1 \in C13_Segment(k)}

\* the ISRC the directives of the k-th segment give the track
C13_Isrc(k) ==
    LET at == {i \in C13_Directives(k, ISRC_TAG) : yielded[i + 1].element = ISRC}
    IN  IF at = {} THEN None
        ELSE yielded[(CHOOSE i \in at : \A j \in at : j <= i) + 1].value

\* the indexes the INDEX directives of the k-th segment give the track
C13_Indexes(k) ==
    LET Whole(i) ==
            /\ i \in C13_Directives(k, INDEX)
            /\ i + 2 \in C13_Segment(k)
            /\ yielded[i + 1].element = NUMBER
            /\ yielded[i + 2].element = TIMESTAMP
        idx == [i \in 1..Len(yielded) |-> i]
        at == SelectSeq(idx, Whole)
    IN  [j \in 1..Len(at) |->
            SheetIndex(yielded[at[j] + 1].value.n,
                       Fraction(yielded[at[j] + 2].value.n, 75))]

\* the audio flag the TRACK directive of the k-th segment gives the track
C13_Audio(k) ==
    /\ C13_Starts[k] + 2 \in C13_Segment(k)
    /\ yielded[C13_Starts[k] + 2].value = PyStr(AUDIO)

\* C13: in every Sheet returned, the ISRC, the index list and the audio flag
\* of each track are those given by the directives between the track's own
\* TRACK directive and the next one (or the end of the stream); nothing of
\* an earlier track appears on a later one.
C13_TrackFromOwnDirectives ==
    Returned =>
        \A k \in 1..Len(result.tracks) :
            k <= Len(C13_Starts) =>
                /\ result.tracks[k].ISRC = C13_Isrc(k)
                /\ result.tracks[k].indexes = C13_Indexes(k)
                /\ result.tracks[k].is_audio = C13_Audio(k)

\* the text passed to tokens()
C14_Input == IF bom THEN BOM \o text ELSE text

\* the characters no rule of lines 64-71 matches at the start of the buffer
C14_Unmatched == Whitespace \ {BLANK, CR, LF}

C14_Buffer ==
    /\ Len(cuedata) <= Len(C14_Input)
    /\ cuedata = Drop(C14_Input, Len(C14_Input) - Len(cuedata))
    /\ \A i \in 1..Len(yielded) : Len(yielded[i].raw) >= 1
    /\ pc = "lexdone" =>
          /\ (raised = NoExc) <=> (cuedata = <<>>)
          /\ raised # NoExc =>
                /\ Head(cuedata) \in C14_Unmatched
                /\ raised = CueException("InvalidToken", 0, <<>>,
                                         Len(C14_Input) - Len(cuedata))

\* a resumption either yields one more token and takes at least the
\* token's characters off the buffer, or ends the generator for good
C14_Shrinks ==
    \/ /\ pc' = "lex"
       /\ Len(yielded') = Len(yielded) + 1
       /\ yielded = SubSeq(yielded', 1, Len(yielded))
       /\ Len(cuedata') + Len(yielded'[Len(yielded')].raw) <= Len(cuedata)
    \/ /\ pc = "lex" /\ pc' = "lexdone"
       /\ yielded' = yielded

\* C14: tokens(text) terminates: every resumption that yields removes at
\* least one character of the remaining buffer and any other resumption is
\* the last one. It ends normally exactly when the whole buffer was
\* consumed, and otherwise raises InvalidToken, after the tokens before it
\* were yielded, with the number of bytes of the input that precede the
\* unmatched remainder.
C14_TerminatesConsumedOrInvalidToken ==
    [](C14_Buffer) /\ [][C14_Shrinks]_vars

\* InvalidToken after two tokens of a text that starts with a BOM
C14_Witness ==
    /\ pc = "lexdone" /\ bom
    /\ raised.kind = "InvalidToken"
    /\ raised.offset > 3
    /\ Len(yielded) = 2

\* the number of EOL tokens among the first n tokens yielded
C15_Eols(n) == Cardinality({i \in 1..n : yielded[i].element = EOL})

\* an EOL token is a whole run of carriage returns and line feeds: when it
\* was yielded last, the buffer does not go on with one of them
C15_WholeRun(i) ==
    /\ yielded[i].raw # <<>>
    /\ \A j \in 1..Len(yielded[i].raw) : yielded[i].raw[j] \in {CR, LF}
    /\ yielded[i].value = PyStr(yielded[i].raw)
    /\ i = Len(yielded) => (cuedata = <<>> \/ Head(cuedata) \notin {CR, LF})

\* C15: the line counter is 1 plus the number of EOL tokens yielded; an EOL
\* token is one whole run of \r and \n and carries the counter after its
\* increment, every other token carries 1 plus the number of EOL tokens
\* yielded before it.
C15_LinePerEolToken ==
    /\ gen # "fresh" => line_number = 1 + C15_Eols(Len(yielded))
    /\ \A i \in 1..Len(yielded) :
          IF yielded[i].element = EOL
          THEN C15_WholeRun(i) /\ yielded[i].line = 1 + C15_Eols(i)
          ELSE yielded[i].line = 1 + C15_Eols(i - 1)

\* a two-character run yielded as one EOL token, then a token of line 2
C15_Witness ==
    /\ pc = "lexdone"
    /\ Len(yielded) = 2
    /\ yielded[1].element = EOL
    /\ Len(yielded[1].raw) = 2
    /\ yielded[2].element = TAG
    /\ yielded[2].line = 2

\* a step of parse() that is the FLAGS directive of an open track
C16_FlagsStep ==
    /\ pc = "parse"
    /\ track_number # None
    /\ Len(yielded') > Len(yielded)
    /\ yielded'[Len(yielded) + 1].element = TAG
    /\ yielded'[Len(yielded) + 1].value = PyStr(FLAGS)

\* the tokens the directive pulled after its tag; parse goes on to the
\* next top-level token when pc' = "parse"
C16_Pulled == SubSeq(yielded', Len(yielded) + 2, Len(yielded'))

C16_EndsAtEol ==
    C16_FlagsStep =>
        /\ \A i \in 1..(Len(C16_Pulled) - 1) :
              C16_Pulled[i].element \in {STRING_, TAG}
        /\ pc' = "parse" =>
              /\ C16_Pulled # <<>>
              /\ C16_Pulled[Len(C16_Pulled)].element = EOL
        /\ (/\ C16_Pulled # <<>>
            /\ C16_Pulled[Len(C16_Pulled)].element \in {NUMBER, ISRC, TIMESTAMP}) =>
              raised' = CueException("InvalidFlag",
                                     C16_Pulled[Len(C16_Pulled)].line, <<>>, 0)

\* C16: the FLAGS directive pulls STRING and TAG tokens up to and including
\* the first EOL token and ends only there, whatever the text of a token;
\* a NUMBER, ISRC or TIMESTAMP token before the EOL fails with InvalidFlag.
C16_FlagsStopAtEol == [][C16_EndsAtEol]_vars

\* the input without the exact sequence EF BB BF at its very start
C17_StripOnce(b) ==
    IF Len(b) >= 3 /\ SubSeq(b, 1, 3) = <<xEF, xBB, xBF>> THEN Drop(b, 3) ELSE b

\* the tokens and the unmatched remainder of b scanned from its first byte
C17_Scanned(b) == C10_Lex(b, 1, <<>>)

\* C17: the lexer removes only the exact 3-byte sequence EF BB BF, only at
\* the very start and at most once; any other input (a lone EF, BB or BF, a
\* permuted BOM, the bytes after a first BOM) is scanned from its first
\* remaining byte with nothing else dropped.
C17_OnlyExactBomRemoved ==
    pc = "lexdone" =>
        /\ yielded = C17_Scanned(C17_StripOnce(C14_Input)).toks
        /\ cuedata = C17_Scanned(C17_StripOnce(C14_Input)).rest

\* a step of parse() that is an attribute directive whose value was pulled
C18_AttributeStep ==
    /\ pc = "parse"
    /\ Len(yielded') >= Len(yielded) + 2
    /\ yielded'[Len(yielded) + 1].element = TAG
    /\ yielded'[Len(yielded) + 1].value.s \in
          (IF track_number = None THEN PreTrackAttributes ELSE TrackAttributes)

C18_Tag == yielded'[Len(yielded) + 1].value.s
C18_Value == yielded'[Len(yielded) + 2]

\* the kinds of value the directive accepts
C18_Kinds ==
    IF track_number = None /\ C18_Tag = CATALOG THEN {STRING_}
    ELSE IF track_number # None /\ C18_Tag = ISRC_TAG THEN {ISRC}
    ELSE {STRING_, TAG, NUMBER, ISRC}

C18_Acceptance ==
    C18_AttributeStep =>
        IF C18_Value.element \in C18_Kinds
        THEN /\ raised'.kind # "MissingValue"
             /\ (track_number = None /\ C18_Tag = CATALOG) =>
                   cuesheet_catalog_number' = C18_Value.value
             /\ (track_number # None /\ C18_Tag = ISRC_TAG) =>
                   track_ISRC' = C18_Value.value
        ELSE /\ raised' = CueException("MissingValue", C18_Value.line, <<>>, 0)
             /\ Len(yielded') = Len(yielded) + 2
             /\ cuesheet_catalog_number' = cuesheet_catalog_number
             /\ track_ISRC' = track_ISRC
             /\ cuesheet_tracks' = cuesheet_tracks
             /\ result' = NoResult

\* C18: CATALOG accepts only a STRING token as its value, in-track ISRC only
\* an ISRC token, the other attributes a STRING, TAG, NUMBER or ISRC token;
\* a value token of any other kind raises MissingValue with the line number
\* the lexer gives that token, and nothing is stored.
C18_ValueKinds == [][C18_Acceptance]_vars

\* CATALOG followed by a NUMBER: MissingValue, no catalog number
C18_Witness ==
    /\ pc = "done"
    /\ raised.kind = "MissingValue"
    /\ token = PyStr(CATALOG)
    /\ yielded[Len(yielded)].element = NUMBER
    /\ cuesheet_catalog_number = None

\* a step of parse() in which a directive, entered at its tag, raises a
\* grammar error
C19_DirectiveFails ==
    /\ pc = "parse"
    /\ Len(yielded') > Len(yielded)
    /\ yielded'[Len(yielded) + 1].element = TAG
    /\ raised'.cls = "CueException"
    /\ raised'.kind # "InvalidToken"

\* 1 plus the number of EOL tokens before the tag of the directive
C19_DirectiveLine ==
    1 + Cardinality({i \in 1..Len(yielded) : yielded[i].element = EOL})

C19_CarriesDirectiveLine ==
    C19_DirectiveFails => raised'.line = C19_DirectiveLine

\* C19: every grammar error raised while a directive is parsed carries the
\* line on which the directive appears (1 plus the number of EOL tokens
\* before its tag), also when a missing value is detected at the EOL token
\* that ends the line.
C19_ErrorLineIsDirectiveLine == [][C19_CarriesDirectiveLine]_vars

\* the step pulls a CATALOG or CDTEXTFILE tag as its top-level token
C20_PreTrackOnlyTag ==
    /\ pc = "parse"
    /\ Len(yielded') > Len(yielded)
    /\ yielded'[Len(yielded) + 1].element = TAG
    /\ yielded'[Len(yielded) + 1].value.s \in {CATALOG, CDTEXTFILE}

C20_Forward ==
    track_number # None =>
        /\ track_number' # None
        /\ cuesheet_catalog_number' = cuesheet_catalog_number
        /\ C20_PreTrackOnlyTag =>
              /\ Len(yielded') = Len(yielded) + 1
              /\ raised' = CueException("InvalidTag",
                                        yielded'[Len(yielded) + 1].line,
                                        yielded'[Len(yielded) + 1].value.s, 0)

\* C20: once the NUMBER of a TRACK directive was read, track_number is
\* never unset again; from then on CATALOG and CDTEXTFILE are rejected and
\* the catalog number never changes.
C20_ContextOnlyForward == [][C20_Forward]_vars

\* a CATALOG directive rejected inside a track, the catalog number kept
C20_Witness ==
    /\ pc = "done"
    /\ track_number # None
    /\ raised.kind = "InvalidTag"
    /\ raised.tag = CATALOG
    /\ cuesheet_catalog_number = PyStr(<<"0", "1">>)

====
